---- MODULE Spec2Model ----
(***************************************************************************)
(* Room-layout image uploader (src/code.ts): the token normalizer, the     *)
(* keyword catalog, the filename resolver, the title deriver, the block    *)
(* auto-seeder and the upload-images handler.                              *)
(*                                                                         *)
(* A JavaScript string is a sequence of one-character strings, so that     *)
(* lower-casing, the regular expressions and the substring operations of   *)
(* the source are computed character by character.                         *)
(***************************************************************************)
EXTENDS Integers, Sequences, FiniteSets, TLC

VARIABLES
  nx, ny, nout, npc,            \* normalizeToken applied to two strings
  fname, fres, fpc,             \* parseFilenameToTargetLayer applied to a filename
  scene,                        \* the nodes under the selected container, in document order
  scene0,                       \* the scene when the message arrived
  rootName,                     \* the name of the selected container
  selected,                     \* what getSelectedContainer returned
  hpc,                          \* where figma.ui.onmessage stands
  posted,                       \* the message given to figma.ui.postMessage
  images,                       \* msg.images
  processed,                    \* the files of the batch the loop has been through
  updatedCount, notFoundLayers, \* the upload handler's accumulators
  last                          \* the file the loop handled last, and the scene before it

normVars == <<nx, ny, nout, npc>>
resVars == <<fname, fres, fpc>>
hostVars == <<scene, scene0, rootName, selected, hpc, posted>>
uploadVars == <<images, processed, updatedCount, notFoundLayers, last>>
vars == <<normVars, resVars, hostVars, uploadVars>>

(***************************************************************************)
(* Characters                                                              *)
(***************************************************************************)
LowerLetters == {"a","b","c","d","e","f","g","h","i","j","k","l","m","n","o","p","q","r","s","t","u","v","w","x","y","z"}
UpperLetters == {"A","B","C","D","E","F","G","H","I","J","K","L","M","N","O","P","Q","R","S","T","U","V","W","X","Y","Z"}
LowerSeq == <<"a","b","c","d","e","f","g","h","i","j","k","l","m","n","o","p","q","r","s","t","u","v","w","x","y","z">>
UpperSeq == <<"A","B","C","D","E","F","G","H","I","J","K","L","M","N","O","P","Q","R","S","T","U","V","W","X","Y","Z">>
Digits == {"0","1","2","3","4","5","6","7","8","9"}

\* null of the source; no string is equal to it (a string holds only
\* one-character elements)
NULL == <<"null">>

\* null where the source holds a RoomKeywordInfo, and where it holds a
\* RegExpMatchArray
NoKeyword == [raw |-> NULL, norm |-> NULL]
NoMatch == [index |-> -1, length |-> -1]

\* String.prototype.toLowerCase on one character (ASCII letters; every other
\* character of the model's alphabets is unchanged by it)
LowerMap == [c \in UpperLetters |-> LowerSeq[CHOOSE i \in 1..26 : UpperSeq[i] = c]]

toLowerCaseOmitted(s) == s

toLowerCase(s) == [i \in 1..Len(s) |-> IF s[i] \in UpperLetters THEN LowerMap[s[i]] ELSE s[i]]

\* [a-z0-9]
IsLowerAlnum(c) == c \in LowerLetters \cup Digits

\* [a-zA-Z0-9]
IsAlnum(c) == c \in LowerLetters \cup UpperLetters \cup Digits

\* \s for the characters of the model: space and line feed
IsSpace(c) == c \in {" ", "\n"}

(***************************************************************************)
(* name.replace(/\.[^/.]+$/, '')                                            *)
(* The leftmost position of a dot that is followed, up to the end of the    *)
(* string, by one or more characters none of which is a dot or a slash.     *)
(***************************************************************************)
ExtMatchAt(s, i) ==
  /\ s[i] = "."
  /\ i < Len(s)
  /\ \A j \in (i + 1)..Len(s) : s[j] \notin {"/", "."}

stripExtension(name) ==
  LET starts == {i \in 1..Len(name) : ExtMatchAt(name, i)}
  IN  IF starts = {} THEN name
      ELSE LET i == CHOOSE k \in starts : \A m \in starts : k <= m
           IN  SubSeq(name, 1, i - 1)

(***************************************************************************)
(* .replace(/[^a-z0-9]+/g, '_'): every maximal run of characters outside    *)
(* [a-z0-9] becomes one underscore.                                         *)
(***************************************************************************)
RECURSIVE ReplaceNonAlnumFrom(_, _)
ReplaceNonAlnumFrom(s, i) ==
  IF i > Len(s) THEN <<>>
  ELSE IF IsLowerAlnum(s[i]) THEN <<s[i]>> \o ReplaceNonAlnumFrom(s, i + 1)
  ELSE IF i > 1 /\ ~IsLowerAlnum(s[i - 1]) THEN ReplaceNonAlnumFrom(s, i + 1)
  ELSE <<"_">> \o ReplaceNonAlnumFrom(s, i + 1)

ReplaceNonAlnumRuns(s) == ReplaceNonAlnumFrom(s, 1)

\* .replace(/_+/g, '_')
RECURSIVE CollapseFrom(_, _)
CollapseFrom(s, i) ==
  IF i > Len(s) THEN <<>>
  ELSE IF s[i] = "_" /\ i > 1 /\ s[i - 1] = "_" THEN CollapseFrom(s, i + 1)
  ELSE <<s[i]>> \o CollapseFrom(s, i + 1)

CollapseUnderscores(s) == CollapseFrom(s, 1)

\* .replace(/^_+|_+$/g, '')
TrimUnderscores(s) ==
  LET keep == {i \in 1..Len(s) : s[i] # "_"}
  IN  IF keep = {} THEN <<>>
      ELSE LET lo == CHOOSE k \in keep : \A m \in keep : k <= m
               hi == CHOOSE k \in keep : \A m \in keep : k >= m
           IN  SubSeq(s, lo, hi)

normalizeTokenNoTrim(raw) ==
  CollapseUnderscores(ReplaceNonAlnumRuns(stripExtension(toLowerCase(raw))))

normalizeToken(raw) ==
  TrimUnderscores(
    CollapseUnderscores(ReplaceNonAlnumRuns(stripExtension(toLowerCase(raw)))))

(***************************************************************************)
(* The keyword catalog                                                     *)
(***************************************************************************)
ROOM_KEYWORDS ==
  << <<"O","w","n","e","r","s","_","B","a","t","h">>,
     <<"O","w","n","e","r","s","_","W","I","C">>,
     <<"O","w","n","e","r","s">>,
     <<"K","i","t","c","h","e","n">>,
     <<"K","i","t","c","h","e","n","e","t","t","e">>,
     <<"D","i","n","i","n","g">>,
     <<"G","r","e","a","t">>,
     <<"L","i","v","i","n","g">>,
     <<"F","a","m","i","l","y">>,
     <<"B","e","d","2">>,
     <<"B","e","d","3">>,
     <<"B","e","d","4">>,
     <<"B","e","d","5">>,
     <<"B","e","d","r","o","o","m">>,
     <<"B","a","t","h","2">>,
     <<"B","a","t","h","3">>,
     <<"B","a","t","h","4">>,
     <<"B","a","t","h">>,
     <<"P","o","w","d","e","r">>,
     <<"L","a","u","n","d","r","y">>,
     <<"G","a","r","a","g","e">>,
     <<"E","n","t","r","y">>,
     <<"F","o","y","e","r">>,
     <<"O","f","f","i","c","e">>,
     <<"S","t","u","d","y">>,
     <<"W","I","C">>,
     <<"S","u","i","t","e">>,
     <<"D","e","n">>,
     <<"L","o","f","t">>,
     <<"B","o","n","u","s">>,
     <<"M","e","d","i","a">>,
     <<"G","a","m","e">>,
     <<"G","y","m">>,
     <<"F","l","e","x">>,
     <<"C","o","v","e","r","e","d","P","a","t","i","o">>,
     <<"D","e","c","k">>,
     <<"P","a","t","i","o">>,
     <<"N","o","o","k">> >>

\* Array.prototype.sort is stable: the entry goes after every entry that
\* does not compare greater than it
RECURSIVE InsertByNormLength(_, _)
InsertByNormLength(sorted, e) ==
  IF sorted = <<>> THEN <<e>>
  ELSE IF Len(e.norm) - Len(Head(sorted).norm) > 0
       THEN <<e>> \o sorted
       ELSE <<Head(sorted)>> \o InsertByNormLength(Tail(sorted), e)

RECURSIVE SortByNormLength(_, _)
SortByNormLength(infos, k) ==
  IF k = 0 THEN <<>>
  ELSE InsertByNormLength(SortByNormLength(infos, k - 1), infos[k])

KeywordInfoUnsorted ==
  [k \in 1..Len(ROOM_KEYWORDS) |->
     [raw |-> ROOM_KEYWORDS[k], norm |-> normalizeToken(ROOM_KEYWORDS[k])]]

\* the catalog without its sort
ROOM_KEYWORD_INFO_Unsorted == KeywordInfoUnsorted

ROOM_KEYWORD_INFO == SortByNormLength(KeywordInfoUnsorted, Len(KeywordInfoUnsorted))

(***************************************************************************)
(* new RegExp(`(^|_)${norm}($|_)`, 'i') on a normalized string             *)
(***************************************************************************)
OccursAt(norm, s, q) ==
  /\ q >= 1
  /\ q + Len(norm) - 1 <= Len(s)
  /\ SubSeq(s, q, q + Len(norm) - 1) = norm

\* ($|_) tried at the 0-based offset e: the number of characters it takes,
\* or -1 when neither alternative matches
BoundaryAfter(s, e) ==
  IF e = Len(s) THEN 0
  ELSE IF s[e + 1] = "_" THEN 1
  ELSE -1

\* The length of the match that starts at the 0-based offset p, or -1.
\* (^|_): the alternative ^ first, then the alternative _.
KeywordMatchLenAt(norm, s, p) ==
  LET viaStart == IF p = 0 /\ OccursAt(norm, s, 1)
                  THEN BoundaryAfter(s, Len(norm)) ELSE -1
      viaUnderscore == IF p < Len(s) /\ s[p + 1] = "_" /\ OccursAt(norm, s, p + 2)
                       THEN BoundaryAfter(s, p + 1 + Len(norm)) ELSE -1
  IN  IF viaStart >= 0 THEN Len(norm) + viaStart
      ELSE IF viaUnderscore >= 0 THEN 1 + Len(norm) + viaUnderscore
      ELSE -1

MatchStarts(norm, s) == {p \in 0..Len(s) : KeywordMatchLenAt(norm, s, p) >= 0}

\* pattern.test(normalized)
KeywordTest(norm, s) == MatchStarts(norm, s) # {}

\* normalized.match(keywordPattern): the leftmost match, its index and its
\* length (keywordMatch[0].length)
KeywordMatch(norm, s) ==
  LET starts == MatchStarts(norm, s)
  IN  IF starts = {} THEN NoMatch
      ELSE LET p == CHOOSE k \in starts : \A m \in starts : k <= m
           IN  [index |-> p, length |-> KeywordMatchLenAt(norm, s, p)]

\* for (const info of catalog) { if (pattern.test(normalized)) { matchedKeyword = info; break; } }
FirstMatchingKeyword(catalog, normalized) ==
  LET hits == {k \in 1..Len(catalog) : KeywordTest(catalog[k].norm, normalized)}
  IN  IF hits = {} THEN NoKeyword
      ELSE catalog[CHOOSE k \in hits : \A m \in hits : k <= m]

(***************************************************************************)
(* The index patterns, on afterKeyword                                     *)
(***************************************************************************)
\* the number of digits at the 0-based offset o and after
RECURSIVE DigitRunLen(_, _)
DigitRunLen(t, o) ==
  IF o < Len(t) /\ t[o + 1] \in Digits THEN 1 + DigitRunLen(t, o + 1) ELSE 0

\* (?=_?of\d+) at the 0-based offset q
OfLookahead(t, q) ==
  LET r == IF q < Len(t) /\ t[q + 1] = "_" THEN q + 1 ELSE q
  IN  /\ r + 3 <= Len(t)
      /\ t[r + 1] = "o"
      /\ t[r + 2] = "f"
      /\ t[r + 3] \in Digits

\* (?:_|$) at the 0-based offset q
UnderscoreOrEnd(t, q) == q = Len(t) \/ t[q + 1] = "_"

\* _? at the start of the text: the underscore is taken when it is there
LeadingUnderscore(t) == IF Len(t) >= 1 /\ t[1] = "_" THEN 1 ELSE 0

\* group 1, (\d+) from the 0-based offset o: \d+ is greedy and gives digits
\* back until what follows it matches, so it ends with the greatest of the
\* lengths after which the rest of the pattern matches
IndexGroup(t, o, lens) ==
  IF lens = {} THEN NULL
  ELSE SubSeq(t, o + 1, o + (CHOOSE n \in lens : \A m \in lens : n >= m))

\* afterKeyword.match(/^_?(\d+)(?=_?of\d+)/)
OfMatch(t) ==
  LET o == LeadingUnderscore(t)
  IN  IndexGroup(t, o, {k \in 1..DigitRunLen(t, o) : OfLookahead(t, o + k)})

\* the pattern without its ^ anchor: the first digit run, wherever it starts
UnderscoreMatchUnanchored(t) ==
  LET hits == {o \in 0..Len(t) : \E k \in 1..DigitRunLen(t, o) : UnderscoreOrEnd(t, o + k)}
  IN  IF hits = {} THEN NULL
      ELSE LET o == CHOOSE h \in hits : \A m \in hits : h <= m
           IN  IndexGroup(t, o, {k \in 1..DigitRunLen(t, o) : UnderscoreOrEnd(t, o + k)})

\* afterKeyword.match(/^_?(\d+)(?:_|$)/)
UnderscoreMatch(t) ==
  LET o == LeadingUnderscore(t)
  IN  IndexGroup(t, o, {k \in 1..DigitRunLen(t, o) : UnderscoreOrEnd(t, o + k)})

\* lines 105-127: the index of the target layer
ExtractIndex(norm, normalized) ==
  LET keywordMatch == KeywordMatch(norm, normalized)
  IN  IF keywordMatch = NoMatch THEN <<"1">>
      ELSE LET keywordEndIndex == keywordMatch.index + keywordMatch.length
               afterKeyword == SubSeq(normalized, keywordEndIndex + 1, Len(normalized))
               ofMatch == OfMatch(afterKeyword)
               underscoreMatch == UnderscoreMatch(afterKeyword)
           IN  IF ofMatch # NULL THEN ofMatch
               ELSE IF underscoreMatch # NULL THEN underscoreMatch
               ELSE <<"1">>

\* const normalized = normalizeToken(stripExtension(name))
NormalizedFilename(name) == normalizeToken(stripExtension(name))

\* the catalog entry the resolver settles on, or NoKeyword
MatchedKeyword(name) == FirstMatchingKeyword(ROOM_KEYWORD_INFO, NormalizedFilename(name))

parseFilenameToTargetLayer(name) ==
  LET normalized == NormalizedFilename(name)
      matchedKeyword == FirstMatchingKeyword(ROOM_KEYWORD_INFO, normalized)
  IN  IF matchedKeyword = NoKeyword THEN NULL
      ELSE matchedKeyword.raw \o <<"_">> \o ExtractIndex(matchedKeyword.norm, normalized)

(***************************************************************************)
(* The title deriver                                                       *)
(***************************************************************************)
\* String.prototype.trim
Trim(s) ==
  LET keep == {i \in 1..Len(s) : ~IsSpace(s[i])}
  IN  IF keep = {} THEN <<>>
      ELSE LET lo == CHOOSE k \in keep : \A m \in keep : k <= m
               hi == CHOOSE k \in keep : \A m \in keep : k >= m
           IN  SubSeq(s, lo, hi)

\* s.split('\n')[0]
FirstLine(s) ==
  LET breaks == {i \in 1..Len(s) : s[i] = "\n"}
  IN  IF breaks = {} THEN s
      ELSE SubSeq(s, 1, (CHOOSE k \in breaks : \A m \in breaks : k <= m) - 1)

\* the lower-case word stands at the 0-based offset p of s, in either case
WordAtIgnoreCase(word, s, p) ==
  /\ p + Len(word) <= Len(s)
  /\ toLowerCase(SubSeq(s, p + 1, p + Len(word))) = word

\* String.prototype.includes
Includes(s, word) == \E p \in 0..Len(s) : OccursAt(word, s, p + 1)

RECURSIVE SpaceRunLen(_, _)
SpaceRunLen(s, o) ==
  IF o < Len(s) /\ IsSpace(s[o + 1]) THEN 1 + SpaceRunLen(s, o + 1) ELSE 0

\* /<word>(room)?\s*(\d+)/i tried at the 0-based offset p: group 2, or NULL.
\* (room)? takes "room" when it is there, \s* every space, \d+ every digit;
\* giving any of them back cannot make \d+ match.
NumberedRoomAt(word, s, p) ==
  IF ~WordAtIgnoreCase(word, s, p) THEN NULL
  ELSE LET a == p + Len(word)
           b == IF WordAtIgnoreCase(<<"r","o","o","m">>, s, a) THEN a + 4 ELSE a
           c == b + SpaceRunLen(s, b)
           n == DigitRunLen(s, c)
           plain == a + SpaceRunLen(s, a)
           m == DigitRunLen(s, plain)
       IN  IF n > 0 THEN SubSeq(s, c + 1, c + n)
           ELSE IF m > 0 THEN SubSeq(s, plain + 1, plain + m)
           ELSE NULL

\* firstLine.match(/<word>(room)?\s*(\d+)/i): group 2 of the leftmost match
NumberedRoomMatch(word, s) ==
  LET starts == {p \in 0..Len(s) : NumberedRoomAt(word, s, p) # NULL}
  IN  IF starts = {} THEN NULL
      ELSE NumberedRoomAt(word, s, CHOOSE k \in starts : \A m \in starts : k <= m)

\* firstLine.replace(/[^a-zA-Z0-9]+/g, '')
StripNonAlnum(s) == SelectSeq(s, IsAlnum)

isOwnersSuiteTitle(title) ==
  LET lower == toLowerCase(title)
  IN  Includes(lower, <<"o","w","n","e","r">>) /\ Includes(lower, <<"s","u","i","t","e">>)

deriveRoomTokenFromText(raw) ==
  LET trimmed == Trim(raw)
      firstLine == Trim(FirstLine(trimmed))
      bedMatch == NumberedRoomMatch(<<"b","e","d">>, firstLine)
      bathMatch == NumberedRoomMatch(<<"b","a","t","h">>, firstLine)
      matched == FirstMatchingKeyword(ROOM_KEYWORD_INFO, normalizeToken(firstLine))
      fallback == StripNonAlnum(firstLine)
  IN  IF trimmed = <<>> THEN NULL
      ELSE IF bedMatch # NULL THEN <<"B","e","d">> \o bedMatch
      ELSE IF bathMatch # NULL THEN <<"B","a","t","h">> \o bathMatch
      ELSE IF \E p \in 0..Len(firstLine) : WordAtIgnoreCase(<<"g","a","m","e">>, firstLine, p)
           THEN <<"G","a","m","e">>
      ELSE IF matched # NoKeyword THEN matched.raw
      ELSE IF fallback = <<>> THEN NULL
      ELSE fallback

(***************************************************************************)
(* The scene graph of the host                                             *)
(* A node is a record; the nodes under the container stand in document      *)
(* order (a parent before its children), parent = 0 for a child of the      *)
(* container itself. findOne and findAll go through them in that order.     *)
(***************************************************************************)
\* 'fills' in node
HasFillsProperty(type) ==
  type \in {"RECTANGLE", "ELLIPSE", "POLYGON", "STAR", "VECTOR",
            "BOOLEAN_OPERATION", "LINE", "TEXT", "FRAME"}

\* 'children' in node
HasChildrenProperty(type) == type \in {"FRAME", "GROUP", "BOOLEAN_OPERATION"}

hasFills(node) == HasFillsProperty(node.type)

isImageLayer(node) ==
  /\ hasFills(node)
  /\ node.type \in {"RECTANGLE", "ELLIPSE", "POLYGON", "STAR", "VECTOR",
                    "BOOLEAN_OPERATION", "LINE"}

namesMatch(a, b) == normalizeToken(a) = normalizeToken(b)

RECURSIVE IsDescendant(_, _, _)
IsDescendant(nodes, i, b) ==
  /\ nodes[i].parent # 0
  /\ (nodes[i].parent = b \/ IsDescendant(nodes, nodes[i].parent, b))

\* the indexes in s, ascending
RECURSIVE Ascending(_)
Ascending(s) ==
  IF s = {} THEN <<>>
  ELSE LET lo == CHOOSE k \in s : \A m \in s : k <= m
       IN  <<lo>> \o Ascending(s \ {lo})

\* block.findAll(pred) in document order: the descendants of b
DescendantsOf(nodes, b) == Ascending({i \in 1..Len(nodes) : IsDescendant(nodes, i, b)})

\* getSelectedContainer(): a selected node is "container" (the scene's root,
\* which has children) or "leaf" (a node that has none)
Selections == {<<>>, <<"container">>, <<"leaf">>, <<"container", "leaf">>}

NotCalled == [error |-> "not-called"]
Container == [error |-> "none"]

getSelectedContainer(selection) ==
  IF Len(selection) = 0 THEN [error |-> "no-frame-selected"]
  ELSE IF Len(selection) > 1 THEN [error |-> "multiple-nodes-selected"]
  ELSE IF selection[1] = "container" THEN Container
  ELSE [error |-> "cannot-contain-layers"]

\* `${n}` for a natural number
RECURSIVE NumberToString(_)
NumberToString(n) ==
  LET digit == <<"0","1","2","3","4","5","6","7","8","9">>[(n % 10) + 1]
  IN  IF n < 10 THEN <<digit>> ELSE NumberToString(n \div 10) \o <<digit>>

(***************************************************************************)
(* autoSeedRoomNames                                                       *)
(***************************************************************************)
PlaceholderFill == <<[type |-> "SOLID", color |-> "light-blue", imageHash |-> "none"]>>

\* the comparator with x and y exchanged
CompareNodesXFirst(a, b) == IF a.x # b.x THEN a.x - b.x ELSE a.y - b.y

\* the comparator of imageNodes.sort: negative, zero or positive
CompareNodes(a, b) == IF a.y # b.y THEN a.y - b.y ELSE a.x - b.x

\* Array.prototype.sort, stable: i goes after every index whose node does
\* not compare greater than its own
RECURSIVE InsertNode(_, _, _)
InsertNode(nodes, sorted, i) ==
  IF sorted = <<>> THEN <<i>>
  ELSE IF CompareNodes(nodes[Head(sorted)], nodes[i]) > 0 THEN <<i>> \o sorted
  ELSE <<Head(sorted)>> \o InsertNode(nodes, Tail(sorted), i)

RECURSIVE SortNodes(_, _, _)
SortNodes(nodes, idxs, k) ==
  IF k = 0 THEN <<>>
  ELSE InsertNode(nodes, SortNodes(nodes, idxs, k - 1), idxs[k])

OwnersPattern ==
  << <<"O","w","n","e","r","s","_","1">>,
     <<"O","w","n","e","r","s","_","2">>,
     <<"O","w","n","e","r","s","_","B","a","t","h","_","1">>,
     <<"O","w","n","e","r","s","_","B","a","t","h","_","2">>,
     <<"O","w","n","e","r","s","_","W","I","C","_","1">> >>

\* the name of the image node at the 0-based position i of an Owners block
OwnersName(i) ==
  IF i < Len(OwnersPattern) THEN OwnersPattern[i + 1]
  ELSE <<"O","w","n","e","r","s","_">> \o NumberToString(i + 1)

\* the name of the image node at the 0-based position i of any other block
TokenName(token, i) == token \o <<"_">> \o NumberToString(i + 1)

\* the loops of lines 324-341 and 357-370: name and fill of every image node
Rename(nodes, sorted, names) ==
  [n \in 1..Len(nodes) |->
     IF \E k \in 1..Len(sorted) : sorted[k] = n
     THEN LET k == CHOOSE j \in 1..Len(sorted) : sorted[j] = n
          IN  [nodes[n] EXCEPT !.name = names[k], !.fills = PlaceholderFill]
     ELSE nodes[n]]

Issue(acc, b, kind) ==
  [acc EXCEPT !.issues = Append(@, [block |-> acc.nodes[b].name, kind |-> kind])]

\* one pass of the loop over the blocks (lines 283-373), for the block b
SeedBlock(acc, b) ==
  LET nodes == acc.nodes
      desc == DescendantsOf(nodes, b)
      texts == SelectSeq(desc, LAMBDA i : nodes[i].type = "TEXT")
      title == Trim(nodes[texts[1]].characters)
      imageNodes == SelectSeq(desc, LAMBDA i : isImageLayer(nodes[i]))
      sorted == SortNodes(nodes, imageNodes, Len(imageNodes))
      token == deriveRoomTokenFromText(title)
      named(names) ==
        [acc EXCEPT !.nodes = Rename(nodes, sorted, names),
                    !.renamedLayers = @ + Len(sorted),
                    !.processedBlocks = @ + 1]
  IN  IF texts = <<>> THEN Issue(acc, b, "no-text-node")
      ELSE IF title = <<>> THEN Issue(acc, b, "empty-title")
      ELSE IF imageNodes = <<>> THEN Issue(acc, b, "no-image-layers")
      ELSE IF isOwnersSuiteTitle(title)
           THEN named([k \in 1..Len(sorted) |-> OwnersName(k - 1)])
      ELSE IF token = NULL THEN Issue(acc, b, "no-token")
      ELSE named([k \in 1..Len(sorted) |-> TokenName(token, k - 1)])

\* the same pass with `return` where the source has `continue`
RECURSIVE SeedBlocksStopAtIssue(_, _)
SeedBlocksStopAtIssue(acc, blocks) ==
  IF blocks = <<>> THEN acc
  ELSE LET next == SeedBlock(acc, Head(blocks))
       IN  IF Len(next.issues) > Len(acc.issues) THEN next
           ELSE SeedBlocksStopAtIssue(next, Tail(blocks))

RECURSIVE SeedBlocks(_, _)
SeedBlocks(acc, blocks) ==
  IF blocks = <<>> THEN acc
  ELSE SeedBlocks(SeedBlock(acc, Head(blocks)), Tail(blocks))

\* container.children.filter((node) => 'children' in node)
BlocksOf(nodes) ==
  Ascending({i \in 1..Len(nodes) :
               nodes[i].parent = 0 /\ HasChildrenProperty(nodes[i].type)})

autoSeedRoomNames(nodes) ==
  LET start == [nodes |-> nodes, renamedLayers |-> 0, processedBlocks |-> 0,
                issues |-> <<>>]
      blocks == BlocksOf(nodes)
  IN  IF blocks = <<>>
      THEN [start EXCEPT !.issues = <<[block |-> <<>>, kind |-> "no-blocks"]>>]
      ELSE SeedBlocks(start, blocks)

(***************************************************************************)
(* Inputs of the pure functions                                            *)
(***************************************************************************)
NormMaxLen == 3
NormAlphabet == {"a", "A", "1", ".", "_", "/", " "}
PairAlphabet == {"a", "A", ".", "_", "/"}

StringsOver(alphabet, n) == UNION {[1..k -> alphabet] : k \in 0..n}

MaxTokens == 3
FileTokens ==
  { <<"K","i","t","c","h","e","n">>,
    <<"K","i","t","c","h","e","n","e","t","t","e">>,
    <<"O","w","n","e","r","s">>,
    <<"B","a","t","h">>,
    <<"B","a","t","h","3">>,
    <<"F","a","m","i","l","y">>,
    <<"D","i","n","i","n","g">>,
    <<"D","r","a","f","t">>,
    <<"2">>,
    <<"0">>,
    <<"0","3">>,
    <<"3","o","f","4">>,
    <<"F","2">> }
FileSeparators == {<<"_">>, <<".">>}
FileExtensions == {<<>>, <<".","p","n","g">>}

RECURSIVE Join(_, _)
Join(tokens, sep) ==
  IF Len(tokens) = 0 THEN <<>>
  ELSE IF Len(tokens) = 1 THEN tokens[1]
  ELSE tokens[1] \o sep \o Join(Tail(tokens), sep)

ExampleFilenames ==
  { <<"K","i","t","c","h","e","n","_","3","o","f","4",".","p","n","g">>,
    <<"G","a","m","e","_","1","o","f","2",".","j","p","g">>,
    <<"B","a","t","h","3","_","F","2",".","p","n","g">>,
    <<"C","o","v","e","r","e","d","P","a","t","i","o","_","1","o","f","2",".","p","n","g">>,
    <<"P","a","t","i","o","_","1","o","f","2",".","p","n","g">>,
    <<"r","a","n","d","o","m","_","d","o","c","u","m","e","n","t",".","t","x","t">>,
    <<"K","i","t","c","h","e","n","e","t","t","e","_","2",".","p","n","g">>,
    <<"O","w","n","e","r","s","_","B","a","t","h","_","1",".","p","n","g">> }

Filenames ==
  ExampleFilenames \cup
  { Join(ts, sep) \o ext :
      ts \in UNION {[1..k -> FileTokens] : k \in 1..MaxTokens},
      sep \in FileSeparators, ext \in FileExtensions }

IdleUpload ==
  /\ images = <<>> /\ processed = 0 /\ updatedCount = 0
  /\ notFoundLayers = <<>> /\ last = NULL

IdlePure ==
  /\ nx = <<>> /\ ny = <<>> /\ nout = NULL /\ npc = "idle"
  /\ fname = <<>> /\ fres = NULL /\ fpc = "idle"

IdleHost ==
  /\ scene = <<>> /\ scene0 = <<>> /\ rootName = <<>> /\ selected = NotCalled
  /\ hpc = "idle" /\ posted = NULL

(***************************************************************************)
(* normalizeToken applied to a string, and to its own result               *)
(***************************************************************************)
NormalizeInit ==
  /\ nx \in StringsOver(NormAlphabet, NormMaxLen + 1)
  /\ ny = <<>>
  /\ nout = [x |-> NULL, y |-> NULL, xx |-> NULL]
  /\ npc = "start"
  /\ fname = <<>> /\ fres = NULL /\ fpc = "idle"
  /\ IdleHost /\ IdleUpload

PairInit ==
  /\ nx \in StringsOver(PairAlphabet, NormMaxLen)
  /\ ny \in StringsOver(PairAlphabet, NormMaxLen)
  /\ nout = [x |-> NULL, y |-> NULL, xx |-> NULL]
  /\ npc = "start"
  /\ fname = <<>> /\ fres = NULL /\ fpc = "idle"
  /\ IdleHost /\ IdleUpload

Normalize ==
  /\ npc = "start"
  /\ nout' = [x |-> normalizeToken(nx),
              y |-> normalizeToken(ny),
              xx |-> normalizeToken(normalizeToken(nx))]
  /\ npc' = "done"
  /\ UNCHANGED <<nx, ny, resVars, hostVars, uploadVars>>

SpecNormalize == NormalizeInit /\ [][Normalize]_vars
SpecNormalizePair == PairInit /\ [][Normalize]_vars

(***************************************************************************)
(* parseFilenameToTargetLayer applied to a filename                        *)
(***************************************************************************)
ResolveInit ==
  /\ fname \in Filenames
  /\ fres = [normalized |-> NULL, keyword |-> NoKeyword, target |-> NULL]
  /\ fpc = "start"
  /\ nx = <<>> /\ ny = <<>> /\ nout = NULL /\ npc = "idle"
  /\ IdleHost /\ IdleUpload

Resolve ==
  /\ fpc = "start"
  /\ fres' = [normalized |-> NormalizedFilename(fname),
              keyword |-> MatchedKeyword(fname),
              target |-> parseFilenameToTargetLayer(fname)]
  /\ fpc' = "done"
  /\ UNCHANGED <<fname, normVars, hostVars, uploadVars>>

SpecResolve == ResolveInit /\ [][Resolve]_vars

(***************************************************************************)
(* Scenes for autoSeedRoomNames                                            *)
(***************************************************************************)
OriginalFill == <<[type |-> "SOLID", color |-> "grey", imageHash |-> "none"]>>

Node(type, name, parent, y, x, chars) ==
  [type |-> type, name |-> name,
   fills |-> IF HasFillsProperty(type) THEN OriginalFill ELSE <<>>,
   x |-> x, y |-> y, locked |-> FALSE, parent |-> parent, characters |-> chars]

Title_Owners == <<"O","w","n","e","r","'","s"," ","S","u","i","t","e">>
Title_Great == <<"G","r","e","a","t"," ","R","o","o","m">>
Title_Bedroom2 == <<"B","e","d","r","o","o","m"," ","2","\n","m","o","r","e"," ","t","e","x","t">>
Title_Bedroom6 == <<"B","e","d","r","o","o","m"," ","6">>
Title_Bathroom3 == <<"B","a","t","h","r","o","o","m"," ","3">>
Title_Game == <<"G","a","m","e"," ","R","o","o","m">>
Title_Kids == <<"K","i","d","'","s"," ","R","o","o","m"," ","2">>
Title_Blank == <<" "," ">>
Title_Marks == <<"!","!","!">>

\* a block: a frame named B<k>, its title text (none when title = NULL), and
\* one rectangle per position of the layout, inside a group when nested
BlockNodes(cfg, k, base) ==
  LET b == base + 1
      text == IF cfg.title = NULL THEN <<>>
              ELSE <<Node("TEXT", <<"T">>, b, 0, 0, cfg.title)>>
      group == IF cfg.nested THEN <<Node("GROUP", <<"G">>, b, 0, 0, <<>>)>> ELSE <<>>
      holder == IF cfg.nested THEN b + Len(text) + 1 ELSE b
  IN  <<Node("FRAME", <<"B">> \o NumberToString(k), 0, 0, 0, <<>>)>>
      \o text \o group
      \o [i \in 1..Len(cfg.layout) |->
            Node("RECTANGLE", <<"R">> \o NumberToString(i), holder,
                 cfg.layout[i][1], cfg.layout[i][2], <<>>)]

RECURSIVE BuildBlocks(_, _, _)
BuildBlocks(cfgs, k, nodes) ==
  IF k > Len(cfgs) THEN nodes
  ELSE BuildBlocks(cfgs, k + 1, nodes \o BlockNodes(cfgs[k], k, Len(nodes)))

\* a rectangle that is a child of the container itself, then the blocks
SceneOf(cfgs) ==
  BuildBlocks(cfgs, 1, <<Node("RECTANGLE", <<"L","o","g","o">>, 0, 0, 0, <<>>)>>)

MaxImages == 6
Grid == {<<0, 0>>, <<0, 1>>, <<1, 0>>}
BlockTitles == {Title_Owners, Title_Great, Title_Bedroom2, Title_Kids}

MaxBlocks == 2
ContainerTitles ==
  {NULL, Title_Blank, Title_Marks, Title_Owners, Title_Great, Title_Bedroom2,
   Title_Bedroom6, Title_Bathroom3, Title_Game, Title_Kids}
ContainerLayouts ==
  { [layout |-> <<>>, nested |-> FALSE],
    [layout |-> << <<0, 0>>, <<0, 1>> >>, nested |-> TRUE],
    [layout |-> << <<1, 0>>, <<0, 1>> >>, nested |-> FALSE] }
ContainerBlocks ==
  { [title |-> ti, layout |-> l.layout, nested |-> l.nested] :
      ti \in ContainerTitles, l \in ContainerLayouts }

NoResult == [renamedLayers |-> 0, processedBlocks |-> 0, issues |-> <<>>]

\* one block, with up to MaxImages rectangles anywhere on the grid
SeedBlockInit ==
  /\ \E ti \in BlockTitles, lay \in UNION {[1..n -> Grid] : n \in 1..MaxImages} :
       scene = SceneOf(<<[title |-> ti, layout |-> lay, nested |-> FALSE]>>)
  /\ scene0 = scene
  /\ rootName = <<"R","o","o","m","s">>
  /\ selected = Container
  /\ hpc = "idle"
  /\ posted = NoResult
  /\ IdlePure /\ IdleUpload

\* up to MaxBlocks blocks
SeedContainerInit ==
  /\ \E cfgs \in UNION {[1..k -> ContainerBlocks] : k \in 0..MaxBlocks} :
       scene = SceneOf(cfgs)
  /\ scene0 = scene
  /\ rootName = <<"R","o","o","m","s">>
  /\ selected = Container
  /\ hpc = "idle"
  /\ posted = NoResult
  /\ IdlePure /\ IdleUpload

\* const result = autoSeedRoomNames(container)
AutoSeed ==
  /\ hpc = "idle"
  /\ LET result == autoSeedRoomNames(scene)
     IN  /\ scene' = result.nodes
         /\ posted' = [renamedLayers |-> result.renamedLayers,
                       processedBlocks |-> result.processedBlocks,
                       issues |-> result.issues]
  /\ hpc' = "done"
  /\ UNCHANGED <<scene0, rootName, selected, normVars, resVars, uploadVars>>

SpecSeedBlock == SeedBlockInit /\ [][AutoSeed]_vars
SpecSeedContainer == SeedContainerInit /\ [][AutoSeed]_vars

(***************************************************************************)
(* The upload-images handler                                               *)
(***************************************************************************)
\* container.findOne(node => hasFills(node) && normalizeToken(node.name) === targetNorm):
\* the index of the first such node in document order, 0 for null
findLayerByName(nodes, targetName) ==
  LET targetNorm == normalizeToken(targetName)
      hits == {i \in 1..Len(nodes) :
                 hasFills(nodes[i]) /\ normalizeToken(nodes[i].name) = targetNorm}
  IN  IF hits = {} THEN 0 ELSE CHOOSE i \in hits : \A m \in hits : i <= m

\* figma.createImage(data) throws on bytes that are no image
CreateImageThrows(data) == data = "corrupt"

ImageFill(data) == <<[type |-> "IMAGE", color |-> "none", imageHash |-> data]>>

Outcome(nodes, root, updated, diagnostics, target, node) ==
  [nodes |-> nodes, rootName |-> root, updated |-> updated,
   diagnostics |-> diagnostics, target |-> target, node |-> node]

\* a comparison of the raw names, where the source compares normalized ones
ParentCarriesRawName(parentName, targetLayerName) == parentName = targetLayerName

\* parent && 'name' in parent && namesMatch(parent.name, targetLayerName)
ParentCarriesTarget(parentName, targetLayerName) == namesMatch(parentName, targetLayerName)

\* the try block with updatedCount += 1 moved in front of createImage
ApplyImageCountsFirst(nodes, root, n, file, targetLayerName) ==
  IF CreateImageThrows(file.data)
  THEN Outcome(nodes, root, 1, <<[name |-> file.name, kind |-> "apply-failed"]>>,
               targetLayerName, n)
  ELSE Outcome([nodes EXCEPT ![n].fills = ImageFill(file.data),
                             ![n].name = stripExtension(file.name)],
               root, 1, <<>>, targetLayerName, n)

\* lines 446-473: the try block and its catch, for the matching node n
ApplyImage(nodes, root, n, file, targetLayerName) ==
  IF CreateImageThrows(file.data)
  THEN Outcome(nodes, root, 0, <<[name |-> file.name, kind |-> "apply-failed"]>>,
               targetLayerName, n)
  ELSE LET newName == stripExtension(file.name)
           filled == [nodes EXCEPT ![n].fills = ImageFill(file.data), ![n].name = newName]
           parent == nodes[n].parent
       IN  IF parent = 0
           THEN Outcome(filled,
                        IF ParentCarriesTarget(root, targetLayerName) THEN newName ELSE root,
                        1, <<>>, targetLayerName, n)
           ELSE Outcome(IF ParentCarriesTarget(filled[parent].name, targetLayerName)
                        THEN [filled EXCEPT ![parent].name = newName] ELSE filled,
                        root, 1, <<>>, targetLayerName, n)

\* lines 413-474: one pass of the loop over the images
UploadOne(nodes, root, file) ==
  LET targetLayerName == parseFilenameToTargetLayer(file.name)
      matchingNode == findLayerByName(nodes, targetLayerName)
      refuse(kind, n) ==
        Outcome(nodes, root, 0, <<[name |-> file.name, kind |-> kind]>>, targetLayerName, n)
  IN  IF targetLayerName = NULL THEN refuse("no-keyword", 0)
      ELSE IF matchingNode = 0 THEN refuse("not-found", 0)
      ELSE IF ~hasFills(nodes[matchingNode]) THEN refuse("not-fillable", matchingNode)
      ELSE IF nodes[matchingNode].locked THEN refuse("locked", matchingNode)
      ELSE ApplyImage(nodes, root, matchingNode, file, targetLayerName)

Name_Kitchen_1 == <<"K","i","t","c","h","e","n","_","1">>
Name_kitchen_1_spaced == <<"k","i","t","c","h","e","n"," ","1">>
Name_Bath_2 == <<"B","a","t","h","_","2">>
Name_Baths == <<"B","a","t","h","s">>
Name_Rooms == <<"R","o","o","m","s">>
File_Kitchen_1_png == <<"K","i","t","c","h","e","n","_","1",".","p","n","g">>
File_Kitchen_1of2_jpg == <<"P","l","a","n"," ","K","i","t","c","h","e","n","_","1","o","f","2",".","j","p","g">>
File_Bath_2_png == <<"B","a","t","h","_","2",".","p","n","g">>
File_notes_txt == <<"n","o","t","e","s",".","t","x","t">>

\* the children of the container a scene is put together from: each a
\* sequence of nodes, the first of them the child (parent 0, once placed)
LayerItems ==
  { <<Node("RECTANGLE", Name_Kitchen_1, 0, 0, 0, <<>>)>>,
    <<[Node("RECTANGLE", Name_kitchen_1_spaced, 0, 0, 0, <<>>) EXCEPT !.locked = TRUE]>>,
    <<Node("GROUP", Name_kitchen_1_spaced, 0, 0, 0, <<>>),
      Node("RECTANGLE", Name_Kitchen_1, 1, 0, 0, <<>>)>>,
    <<Node("FRAME", Name_Baths, 0, 0, 0, <<>>),
      Node("RECTANGLE", Name_Bath_2, 1, 0, 0, <<>>)>>,
    <<Node("TEXT", Name_Bath_2, 0, 0, 0, Name_Bath_2)>> }

MaxLayers == 2

RECURSIVE PlaceItems(_, _, _)
PlaceItems(items, k, nodes) ==
  IF k > Len(items) THEN nodes
  ELSE PlaceItems(items, k + 1,
         nodes \o [i \in 1..Len(items[k]) |->
                     [items[k][i] EXCEPT !.parent = IF @ = 0 THEN 0 ELSE @ + Len(nodes)]])

UploadFiles ==
  { [name |-> File_Kitchen_1_png, data |-> "png-bytes"],
    [name |-> File_Kitchen_1of2_jpg, data |-> "jpg-bytes"],
    [name |-> File_Bath_2_png, data |-> "png-bytes"],
    [name |-> File_Bath_2_png, data |-> "corrupt"],
    [name |-> File_notes_txt, data |-> "png-bytes"] }

MaxFiles == 2

NoFile == [name |-> NULL, data |-> "none"]
NoLast ==
  [file |-> NoFile, scene |-> <<>>, rootName |-> <<>>, updated |-> 0,
   diagnostics |-> <<>>, target |-> NULL, node |-> 0]

NotPosted ==
  [type |-> "none", updatedCount |-> 0, totalImages |-> 0, notFoundLayers |-> <<>>]

UploadComplete(updated, total, diagnostics) ==
  [type |-> "upload-complete", updatedCount |-> updated, totalImages |-> total,
   notFoundLayers |-> diagnostics]

UploadInit ==
  /\ \E items \in UNION {[1..k -> LayerItems] : k \in 0..MaxLayers} :
       scene = PlaceItems(items, 1, <<>>)
  /\ scene0 = scene
  /\ rootName \in {Name_Rooms, Name_Kitchen_1}
  /\ selected = NotCalled
  /\ hpc = "idle"
  /\ posted = NotPosted
  /\ images = <<>> /\ processed = 0 /\ updatedCount = 0
  /\ notFoundLayers = <<>> /\ last = NoLast
  /\ IdlePure

\* lines 381-411: the message arrives; the empty batch and the selection
\* errors end the handler
UploadStart ==
  /\ hpc = "idle"
  /\ \E batch \in UNION {[1..k -> UploadFiles] : k \in 0..MaxFiles},
        selection \in Selections :
       /\ images' = batch
       /\ updatedCount' = 0
       /\ IF Len(batch) = 0
          THEN /\ posted' = UploadComplete(0, 0, <<[name |-> <<>>, kind |-> "no-images"]>>)
               /\ notFoundLayers' = <<>>
               /\ selected' = selected
               /\ hpc' = "done"
          ELSE LET picked == getSelectedContainer(selection)
               IN  /\ selected' = picked
                   /\ IF picked # Container
                      THEN /\ notFoundLayers' = <<[name |-> <<>>, kind |-> picked.error]>>
                           /\ posted' = UploadComplete(0, Len(batch), notFoundLayers')
                           /\ hpc' = "done"
                      ELSE /\ notFoundLayers' = <<>>
                           /\ posted' = posted
                           /\ hpc' = "loop"
  /\ UNCHANGED <<scene, scene0, rootName, processed, last, normVars, resVars>>

\* one pass of the loop; after the last one, lines 476-483
UploadFile ==
  /\ hpc = "loop"
  /\ processed < Len(images)
  /\ \E file \in {images[processed + 1]} :
     \E out \in {UploadOne(scene, rootName, file)} :
         /\ scene' = out.nodes
         /\ rootName' = out.rootName
         /\ updatedCount' = updatedCount + out.updated
         /\ notFoundLayers' = notFoundLayers \o out.diagnostics
         /\ last' = [file |-> file, scene |-> scene, rootName |-> rootName,
                     updated |-> out.updated, diagnostics |-> out.diagnostics,
                     target |-> out.target, node |-> out.node]
         /\ processed' = processed + 1
         /\ IF processed + 1 = Len(images)
            THEN /\ posted' = UploadComplete(updatedCount', Len(images), notFoundLayers')
                 /\ hpc' = "done"
            ELSE /\ posted' = posted
                 /\ hpc' = "loop"
  /\ UNCHANGED <<scene0, selected, images, normVars, resVars>>

UploadNext == UploadStart \/ UploadFile

SpecUpload == UploadInit /\ [][UploadNext]_vars

(***************************************************************************)
(* Claims about normalizeToken                                             *)
(***************************************************************************)
NoAdjacentUnderscores(s) == \A i \in 1..(Len(s) - 1) : ~(s[i] = "_" /\ s[i + 1] = "_")

NoOuterUnderscore(s) == s = <<>> \/ (s[1] # "_" /\ s[Len(s)] # "_")

\* C4: normalizeToken is idempotent; its output holds only characters of
\* [a-z0-9_], neither starts nor ends with an underscore, holds no two
\* adjacent underscores; the empty input gives the empty output.
C4_NormalizeIdempotent ==
  npc = "done" =>
    /\ nout.xx = nout.x
    /\ \A i \in 1..Len(nout.x) : nout.x[i] \in LowerLetters \cup Digits \cup {"_"}
    /\ NoOuterUnderscore(nout.x)
    /\ NoAdjacentUnderscores(nout.x)
    /\ (nx = <<>> => nout.x = <<>>)

\* normalizeToken has rewritten an input that holds an upper-case letter, a
\* dot and an underscore, to a non-empty token
C4_Witness ==
  /\ npc = "done"
  /\ \E i, j, k \in 1..Len(nx) : nx[i] \in UpperLetters /\ nx[j] = "." /\ nx[k] = "_"
  /\ nout.x # <<>>
  /\ nout.x # nx
  /\ nout.xx = nout.x

\* The alphanumeric runs of a string, in order, lower-cased
RECURSIVE AlnumRunsFrom(_, _, _)
AlnumRunsFrom(s, i, cur) ==
  IF i > Len(s) THEN (IF cur = <<>> THEN <<>> ELSE <<cur>>)
  ELSE IF IsAlnum(s[i])
       THEN AlnumRunsFrom(s, i + 1,
              Append(cur, IF s[i] \in UpperLetters THEN LowerMap[s[i]] ELSE s[i]))
       ELSE (IF cur = <<>> THEN <<>> ELSE <<cur>>) \o AlnumRunsFrom(s, i + 1, <<>>)

AlnumRuns(s) == AlnumRunsFrom(s, 1, <<>>)

\* the two strings differ only in letter case and in the non-alphanumeric
\* characters between and around their alphanumeric runs
SameRuns(a, b) == AlnumRuns(a) = AlnumRuns(b)

\* a dot, then one or more characters up to the end, none a dot or a slash
HasExtensionSuffix(s) ==
  \E i \in 1..(Len(s) - 1) :
    /\ s[i] = "."
    /\ \A j \in (i + 1)..Len(s) : s[j] # "." /\ s[j] # "/"

\* C5 as claimed: two strings with the same alphanumeric runs up to letter
\* case, differing only in the non-alphanumeric characters around the runs,
\* normalize to the same output.
C5_PunctuationInsensitive ==
  (npc = "done" /\ SameRuns(nx, ny)) => nout.x = nout.y

\* C5 as amended: the same, for two strings neither of which ends in an
\* extension suffix (a dot followed up to the end of the string by one or
\* more characters other than dot and slash).
C5_PunctuationInsensitiveNoExtension ==
  (npc = "done" /\ SameRuns(nx, ny)
     /\ ~HasExtensionSuffix(nx) /\ ~HasExtensionSuffix(ny))
  => nout.x = nout.y

\* two different strings with the same runs, one of them with a dot, the
\* other without, have been normalized to the same non-empty token
C5_Witness ==
  /\ npc = "done"
  /\ nx # ny
  /\ SameRuns(nx, ny)
  /\ ~HasExtensionSuffix(nx) /\ ~HasExtensionSuffix(ny)
  /\ \E i \in 1..Len(nx) : nx[i] = "."
  /\ \A i \in 1..Len(ny) : ny[i] # "."
  /\ nout.x = nout.y
  /\ Len(nout.x) >= 2

(***************************************************************************)
(* Claims about parseFilenameToTargetLayer                                 *)
(***************************************************************************)
\* the normalized form of the k-th declared keyword
DeclaredNorm(k) == normalizeToken(ROOM_KEYWORDS[k])

\* norm stands at the 1-based position q of s as a whole underscore-delimited
\* token
WholeTokenAt(norm, s, q) ==
  /\ q + Len(norm) - 1 <= Len(s)
  /\ \A i \in 1..Len(norm) : s[q + i - 1] = norm[i]
  /\ (q = 1 \/ s[q - 1] = "_")
  /\ (q + Len(norm) - 1 = Len(s) \/ s[q + Len(norm)] = "_")

OccursAsToken(norm, s) == \E q \in 1..Len(s) : WholeTokenAt(norm, s, q)

Str_Kitchenette_2_png == <<"K","i","t","c","h","e","n","e","t","t","e","_","2",".","p","n","g">>
Str_Kitchenette_2 == <<"K","i","t","c","h","e","n","e","t","t","e","_","2">>
Str_Owners_Bath_1_png == <<"O","w","n","e","r","s","_","B","a","t","h","_","1",".","p","n","g">>
Str_Owners_Bath_1 == <<"O","w","n","e","r","s","_","B","a","t","h","_","1">>
Str_Bath3_F2_png == <<"B","a","t","h","3","_","F","2",".","p","n","g">>
Str_Bath3_1 == <<"B","a","t","h","3","_","1">>
Str_Kitchen_3of4_png == <<"K","i","t","c","h","e","n","_","3","o","f","4",".","p","n","g">>
Str_Kitchen_3 == <<"K","i","t","c","h","e","n","_","3">>

IsPrefix(a, b) == Len(a) <= Len(b) /\ SubSeq(b, 1, Len(a)) = a

\* C1: the resolver returns no-match exactly when no catalog keyword's
\* normalized form occurs in the normalized filename as a whole
\* underscore-delimited token; otherwise the keyword it uses so occurs, no
\* keyword with a longer normalized form so occurs, and among those of its
\* length it is the first declared. Kitchenette_2.png gives Kitchenette_2 and
\* Owners_Bath_1.png gives Owners_Bath_1.
C1_SpecificityFirst ==
  fpc = "done" =>
    LET n == fres.normalized
        occurring == {k \in 1..Len(ROOM_KEYWORDS) : OccursAsToken(DeclaredNorm(k), n)}
    IN  /\ (fres.target = NULL) <=> (occurring = {})
        /\ (fres.keyword = NoKeyword) <=> (occurring = {})
        /\ fres.target # NULL =>
             \E k \in occurring :
               /\ fres.keyword.raw = ROOM_KEYWORDS[k]
               /\ IsPrefix(ROOM_KEYWORDS[k] \o <<"_">>, fres.target)
               /\ \A j \in occurring :
                    /\ Len(DeclaredNorm(j)) <= Len(DeclaredNorm(k))
                    /\ (Len(DeclaredNorm(j)) = Len(DeclaredNorm(k)) => k <= j)
        /\ fname = Str_Kitchenette_2_png => fres.target = Str_Kitchenette_2
        /\ fname = Str_Owners_Bath_1_png => fres.target = Str_Owners_Bath_1

\* a filename in which two keywords of different lengths and two of the same
\* length occur as tokens has been resolved, to the longest
C1_Witness ==
  /\ fpc = "done"
  /\ fres.target # NULL
  /\ LET occurring == {k \in 1..Len(ROOM_KEYWORDS) :
                         OccursAsToken(DeclaredNorm(k), fres.normalized)}
     IN  /\ \E j, k \in occurring : Len(DeclaredNorm(j)) < Len(DeclaredNorm(k))
         /\ \E j, k \in occurring : j # k /\ Len(DeclaredNorm(j)) = Len(DeclaredNorm(k))
         /\ \E k \in occurring :
              /\ fres.keyword.raw = ROOM_KEYWORDS[k]
              /\ \A j \in occurring : Len(DeclaredNorm(j)) <= Len(DeclaredNorm(k))

IsDigits(s) == \A i \in 1..Len(s) : s[i] \in Digits

\* the strings after the last underscore of s, and before it
LastUnderscore(s) ==
  LET us == {i \in 1..Len(s) : s[i] = "_"}
  IN  IF us = {} THEN 0 ELSE CHOOSE i \in us : \A m \in us : i >= m

\* C2 as claimed: every non-null result is <RawKeyword>_<index>, the raw
\* form of a catalog entry, an underscore, and a positive integer written
\* without leading zeros.
C2_TargetWellFormed ==
  (fpc = "done" /\ fres.target # NULL) =>
    LET u == LastUnderscore(fres.target)
        head == SubSeq(fres.target, 1, u - 1)
        index == SubSeq(fres.target, u + 1, Len(fres.target))
    IN  /\ u > 1
        /\ \E k \in 1..Len(ROOM_KEYWORDS) : head = ROOM_KEYWORDS[k]
        /\ index # <<>>
        /\ IsDigits(index)
        /\ index[1] # "0"

\* the longest prefix of digits
RECURSIVE LeadingDigits(_)
LeadingDigits(s) ==
  IF s # <<>> /\ Head(s) \in Digits THEN <<Head(s)>> \o LeadingDigits(Tail(s)) ELSE <<>>

DropPrefix(s, n) == SubSeq(s, n + 1, Len(s))

\* an optional underscore, then "of", then a digit
StartsWithOf(s) ==
  LET r == IF s # <<>> /\ s[1] = "_" THEN Tail(s) ELSE s
  IN  Len(r) >= 3 /\ r[1] = "o" /\ r[2] = "f" /\ r[3] \in Digits

\* the index the claim describes, from the text that follows the first
\* occurrence of the keyword
ClaimedIndex(norm, s) ==
  LET occ == {q \in 1..Len(s) : WholeTokenAt(norm, s, q)}
      q == CHOOSE k \in occ : \A m \in occ : k <= m
      tail == DropPrefix(s, q + Len(norm) - 1)
      t == IF tail # <<>> /\ tail[1] = "_" THEN Tail(tail) ELSE tail
      run == LeadingDigits(t)
      rest == DropPrefix(t, Len(run))
  IN  IF run # <<>> /\ StartsWithOf(rest) THEN run
      ELSE IF run # <<>> /\ (rest = <<>> \/ rest[1] = "_") THEN run
      ELSE <<"1">>

\* C3: the index is the leading digit run of the text after the first
\* boundary match of the chosen keyword (after at most one separating
\* underscore) when the run is followed by an optional underscore, "of" and
\* digits, or else when it is ended by an underscore or the end of the
\* string; otherwise it is 1. Bath3_F2.png gives index 1 and
\* Kitchen_3of4.png gives 3.
C3_IndexExtraction ==
  (fpc = "done" /\ fres.target # NULL) =>
    /\ fres.target =
         fres.keyword.raw \o <<"_">> \o ClaimedIndex(fres.keyword.norm, fres.normalized)
    /\ fname = Str_Bath3_F2_png => fres.target = Str_Bath3_1
    /\ fname = Str_Kitchen_3of4_png => fres.target = Str_Kitchen_3

\* a filename whose keyword is followed by a letter and then a digit has been
\* resolved to index 1
C3_Witness ==
  /\ fpc = "done"
  /\ fname = Str_Bath3_F2_png
  /\ fres.normalized = <<"b","a","t","h","3","_","f","2">>
  /\ fres.target = Str_Bath3_1

(***************************************************************************)
(* Claims about autoSeedRoomNames                                          *)
(***************************************************************************)
\* the nodes under the block b, and the image-bearing ones among them
Under(nodes, b) == {i \in 1..Len(nodes) : IsDescendant(nodes, i, b)}

ImagesUnder(nodes, b) ==
  {i \in Under(nodes, b) :
     nodes[i].type \in {"RECTANGLE", "ELLIPSE", "POLYGON", "STAR", "VECTOR",
                        "BOOLEAN_OPERATION", "LINE"}}

TopBlocks(nodes) ==
  {i \in 1..Len(nodes) : nodes[i].parent = 0 /\ nodes[i].type \in {"FRAME", "GROUP", "BOOLEAN_OPERATION"}}

\* the trimmed text of the first text node under b (only where there is one)
TitleOf(nodes, b) ==
  LET texts == {i \in Under(nodes, b) : nodes[i].type = "TEXT"}
  IN  Trim(nodes[CHOOSE i \in texts : \A m \in texts : i <= m].characters)

HasText(nodes, b) == \E i \in Under(nodes, b) : nodes[i].type = "TEXT"

\* the four ways a block fails
FailureOf(nodes, b) ==
  IF ~HasText(nodes, b) THEN "no-text-node"
  ELSE IF TitleOf(nodes, b) = <<>> THEN "empty-title"
  ELSE IF ImagesUnder(nodes, b) = {} THEN "no-image-layers"
  ELSE IF ~isOwnersSuiteTitle(TitleOf(nodes, b))
          /\ deriveRoomTokenFromText(TitleOf(nodes, b)) = NULL THEN "no-token"
  ELSE "none"

\* visual reading order: ascending y, then ascending x
ReadsBefore(m, n) == m.y < n.y \/ (m.y = n.y /\ m.x < n.x)

\* the 0-based position of the image node n in the ordering of its block
\* (nodes at the same place keep their document order)
PositionOf(nodes, b, n) ==
  Cardinality({m \in ImagesUnder(nodes, b) :
                 \/ ReadsBefore(nodes[m], nodes[n])
                 \/ (~ReadsBefore(nodes[n], nodes[m]) /\ m < n)})

ClaimedOwnersNames ==
  << <<"O","w","n","e","r","s","_","1">>,
     <<"O","w","n","e","r","s","_","2">>,
     <<"O","w","n","e","r","s","_","B","a","t","h","_","1">>,
     <<"O","w","n","e","r","s","_","B","a","t","h","_","2">>,
     <<"O","w","n","e","r","s","_","W","I","C","_","1">>,
     <<"O","w","n","e","r","s","_","6">> >>

\* seq(i) of the claim
ClaimedName(title, i) ==
  IF isOwnersSuiteTitle(title)
  THEN (IF i < 5 THEN ClaimedOwnersNames[i + 1]
        ELSE <<"O","w","n","e","r","s","_">> \o NumberToString(i + 1))
  ELSE deriveRoomTokenFromText(title) \o <<"_">> \o NumberToString(i + 1)

KeptWithout(nodes, b) ==
  Ascending({i \in 1..Len(nodes) : i # b /\ ~IsDescendant(nodes, i, b)})

NewIndex(kept, i) == CHOOSE k \in 1..Len(kept) : kept[k] = i

Without(nodes, b) ==
  LET kept == KeptWithout(nodes, b)
  IN  [k \in 1..Len(kept) |->
         [nodes[kept[k]] EXCEPT !.parent = IF @ = 0 THEN 0 ELSE NewIndex(kept, @)]]

IssuesAbout(issues, name) == SelectSeq(issues, LAMBDA e : e.block = name)

\* C7: a block with no text node, an empty title, no image-bearing node, or a
\* non-Owners title that gives no token adds exactly one issue, nothing to
\* renamedLayers or processedBlocks, and keeps the name and fill of each of
\* its nodes; every other block gets the names and the counts it would have
\* got with the failing block absent.
C7_FailureIsolation ==
  hpc = "done" =>
    \A b \in TopBlocks(scene0) :
      FailureOf(scene0, b) # "none" =>
        LET kept == KeptWithout(scene0, b)
            alone == autoSeedRoomNames(Without(scene0, b))
            others == TopBlocks(scene0) \ {b}
        IN  /\ IssuesAbout(posted.issues, scene0[b].name)
                 = <<[block |-> scene0[b].name, kind |-> FailureOf(scene0, b)]>>
            /\ \A n \in Under(scene0, b) \cup {b} : scene[n] = scene0[n]
            /\ posted.renamedLayers = alone.renamedLayers
            /\ posted.processedBlocks = alone.processedBlocks
            /\ posted.processedBlocks =
                 Cardinality({o \in TopBlocks(scene0) : FailureOf(scene0, o) = "none"})
            /\ \A k \in 1..Len(kept) :
                 /\ alone.nodes[k].name = scene[kept[k]].name
                 /\ alone.nodes[k].fills = scene[kept[k]].fills
            /\ \A o \in others :
                 IssuesAbout(posted.issues, scene0[o].name)
                   = IssuesAbout(alone.issues, scene0[o].name)

\* a block whose title gives no token, holding two rectangles, came before a
\* block that was renamed
C7_Witness ==
  /\ hpc = "done"
  /\ \E b, o \in TopBlocks(scene0) :
       /\ b < o
       /\ FailureOf(scene0, b) = "no-token"
       /\ Cardinality(ImagesUnder(scene0, b)) = 2
       /\ FailureOf(scene0, o) = "none"
       /\ \E n \in ImagesUnder(scene0, o) : scene[n].name # scene0[n].name
  /\ posted.processedBlocks = 1
  /\ posted.renamedLayers = 2
  /\ Len(posted.issues) = 1

\* the title's first line falls under one of the rules 1 to 4 of the deriver
DerivedByRule1To4(title) ==
  LET firstLine == Trim(FirstLine(Trim(title)))
  IN  \/ NumberedRoomMatch(<<"b","e","d">>, firstLine) # NULL
      \/ NumberedRoomMatch(<<"b","a","t","h">>, firstLine) # NULL
      \/ Includes(toLowerCase(firstLine), <<"g","a","m","e">>)
      \/ FirstMatchingKeyword(ROOM_KEYWORD_INFO, normalizeToken(firstLine)) # NoKeyword

\* C10 as claimed: every name the seeder assigns through the Owners pattern
\* or through a token of the rules 1 to 4 is a fixed point of the resolver,
\* with or without a file extension after it.
C10_SeededNamesResolve ==
  hpc = "done" =>
    \A b \in TopBlocks(scene0) :
      (/\ FailureOf(scene0, b) = "none"
       /\ (isOwnersSuiteTitle(TitleOf(scene0, b)) \/ DerivedByRule1To4(TitleOf(scene0, b))))
      => \A n \in ImagesUnder(scene0, b) :
           /\ parseFilenameToTargetLayer(scene[n].name) = scene[n].name
           /\ parseFilenameToTargetLayer(scene[n].name \o <<".","p","n","g">>) = scene[n].name

(***************************************************************************)
(* Claims about the upload-images handler                                  *)
(***************************************************************************)
\* the loop has been through a file
FileHandled == hpc \in {"loop", "done"} /\ selected = Container /\ processed > 0

PerFileDiagnostics ==
  {"no-keyword", "not-found", "not-fillable", "locked", "apply-failed"}

\* C8: with a non-empty batch and one selected container every file of the
\* batch is gone through, in order, whatever happened to the files before
\* it; each file adds one to updatedCount or one diagnostic, never both and
\* never neither, so that upload-complete has updatedCount +
\* length(notFoundLayers) = totalImages; a file that gives a diagnostic
\* changes no name and no fill, and earlier edits stay.
C8_PerFileAccounting ==
  /\ (selected = Container /\ hpc \in {"loop", "done"}) =>
       /\ updatedCount + Len(notFoundLayers) = processed
       /\ hpc = "loop" => processed < Len(images)
       /\ hpc = "done" =>
            /\ processed = Len(images)
            /\ posted.type = "upload-complete"
            /\ posted.totalImages = Len(images)
            /\ posted.updatedCount + Len(posted.notFoundLayers) = posted.totalImages
  /\ FileHandled =>
       /\ last.file = images[processed]
       /\ \/ (last.updated = 1 /\ last.diagnostics = <<>>)
          \/ (/\ last.updated = 0
              /\ Len(last.diagnostics) = 1
              /\ last.diagnostics[1].name = last.file.name
              /\ last.diagnostics[1].kind \in PerFileDiagnostics
              /\ notFoundLayers[Len(notFoundLayers)] = last.diagnostics[1]
              /\ scene = last.scene
              /\ rootName = last.rootName)

\* a batch of two: the first file could not be applied, the second one was
C8_Witness ==
  /\ hpc = "done"
  /\ selected = Container
  /\ Len(images) = 2
  /\ posted.updatedCount = 1
  /\ Len(posted.notFoundLayers) = 1
  /\ posted.notFoundLayers[1].kind = "apply-failed"
  /\ posted.notFoundLayers[1].name = images[1].name
  /\ last.updated = 1
  /\ scene # last.scene

\* the first node, in document order, that can hold a fill and whose
\* normalized name is that of the target; 0 when there is none
FirstFillableNamed(nodes, target) ==
  LET named == {i \in 1..Len(nodes) :
                  /\ nodes[i].type # "GROUP"
                  /\ normalizeToken(nodes[i].name) = normalizeToken(target)}
  IN  IF named = {} THEN 0 ELSE CHOOSE i \in named : \A m \in named : i <= m

\* C9: a file that succeeds gives the layer matched by normalized-name
\* equality with the target a single image fill and the filename without
\* extension as its name; the parent of that layer gets the same name if and
\* only if its name was normalized-equal to the target, and is unchanged
\* otherwise; no other node's name or fill changes.
C9_SuccessfulFileEffect ==
  (FileHandled /\ last.updated = 1) =>
    LET before == last.scene
        n == FirstFillableNamed(before, last.target)
        parent == before[n].parent
        newName == stripExtension(last.file.name)
        renamed(old) == IF normalizeToken(old) = normalizeToken(last.target)
                        THEN newName ELSE old
    IN  /\ n # 0
        /\ last.node = n
        /\ last.target = parseFilenameToTargetLayer(last.file.name)
        /\ Len(scene) = Len(before)
        /\ Len(scene[n].fills) = 1
        /\ scene[n].fills[1].type = "IMAGE"
        /\ scene[n].fills[1].imageHash = last.file.data
        /\ scene[n] = [before[n] EXCEPT !.name = newName, !.fills = scene[n].fills]
        /\ parent = 0 =>
             /\ rootName = renamed(last.rootName)
             /\ \A i \in 1..Len(scene) : i # n => scene[i] = before[i]
        /\ parent # 0 =>
             /\ rootName = last.rootName
             /\ scene[parent] = [before[parent] EXCEPT !.name = renamed(@)]
             /\ \A i \in 1..Len(scene) : i \notin {n, parent} => scene[i] = before[i]

\* the scene held the rectangle Kitchen_1 in a group named "kitchen 1", and
\* the rectangle Bath_2 in the frame Baths: a file has been applied to the
\* former and has renamed the group, and another to the latter and not the
\* frame
C9_Witness ==
  /\ FileHandled
  /\ processed = 2
  /\ updatedCount = 2
  /\ \E n, m \in 1..Len(scene) :
       /\ scene0[n].name = Name_Kitchen_1
       /\ scene0[n].parent # 0
       /\ scene0[scene0[n].parent].name = Name_kitchen_1_spaced
       /\ scene[n].fills[1].type = "IMAGE"
       /\ scene[scene0[n].parent].name = scene[n].name
       /\ scene[n].name # Name_Kitchen_1
       /\ scene0[m].name = Name_Bath_2
       /\ scene0[m].parent # 0
       /\ scene[m].fills[1].type = "IMAGE"
       /\ scene[scene0[m].parent].name = Name_Baths

====
